---- MODULE Spec2Model ----
(***************************************************************************)
(* State-machine model of hikvision-camera-bot:                            *)
(*   - DvrFile (services/stream/dvr/file_wrapper.py)                       *)
(*   - TelegramDvrUploadTask (services/stream/dvr/upload/tasks/telegram.py)*)
(*   - AlarmService (services/alarm/camera/alarm.py)                       *)
(*   - inbound task handlers (event_engine/handlers/inbound.py)            *)
(* Every action runs one coroutine from one suspension point (an await     *)
(* that really yields: queue get on an empty queue, a device or transport  *)
(* call, the retry back-off) to the next, as asyncio schedules it.         *)
(***************************************************************************)
EXTENDS Integers, Sequences, FiniteSets, TLC

\* ---------------------------------------------------------------- bounds
NumFiles == 2
\* largest lock count handed to the DvrFile constructor
MaxLock == 2
\* cap on the decrement_lock_count calls made directly on one file
MaxDecrements == 3
\* cap on the make_context calls made on one file
MaxProbes == 2
\* handler coroutines that can be in flight at once
NumHandlers == 2
\* inbound events dispatched in one run
MaxInvocations == 3
\* detection triggers of DetectionType.choices()
NumTriggers == 2

Files == 1..NumFiles
\* The upload destinations; the repository's worker is the Telegram task.
NumWorkers == 2
Workers == 1..NumWorkers

\* telegram.py:15  _UPLOAD_RETRY_STOP_AFTER
UPLOAD_RETRY_STOP_AFTER == 5

NoFile == 0
\* file_wrapper.py:29-31  duration, width, height before a probe set them
Unset == -1

Handlers == 1..NumHandlers
\* alarm.py:26  ALARM_TRIGGERS, in iteration order
ALARM_TRIGGERS == 1..NumTriggers
NoTrigger == 0
\* Python's None as the value of a text field
None == <<>>

VARIABLES
    \* DvrFile fields
    constructed,     \* [Files -> BOOLEAN]  the entity exists (__init__ returned)
    lock_count,      \* [Files -> Int]      DvrFile._lock_count
    is_broken,       \* [Files -> BOOLEAN]  DvrFile._is_broken
    disk,            \* [Files -> {"missing","empty","data"}] what full_path holds
    flog,            \* [Files -> [init, decs, ctor]] lock count supplied,
                     \*    decrement calls, outcome of the last __init__
    duration,        \* [Files -> Int]      DvrFile._duration (Unset for None)
    width,           \* [Files -> Int]      DvrFile._width
    height,          \* [Files -> Int]      DvrFile._height
    probe_ctx,       \* [Files -> dict]     DvrFile._probe_ctx (<<>> for None or {})
    probe,           \* [Files -> position and outcome of _get_probe_ctx]
    thumb,           \* [Files -> position and outcome of _make_thumbnail_frame]
    \* upload pipeline
    queue,           \* [Workers -> Seq(Files)]   AbstractDvrUploadTask._queue
    wpc,             \* [Workers -> position of the worker coroutine]
    wfile,           \* [Workers -> file_ of _process_queue]
    attempt_number,  \* [Workers -> tenacity's attempt number of _upload_video]
    ulog,            \* [Workers -> [Files -> history of what the worker did]]
    \* camera and AlarmService
    is_behind_nvr,   \* BOOLEAN            cam.is_behind_nvr
    conf_enabled,    \* SUBSET ALARM_TRIGGERS  triggers the configuration enables
    started,         \* BOOLEAN            AlarmService._started.is_set()
    spawned,         \* Nat                monitoring tasks created by _start_service_task
    tasks,           \* Seq([pc, stopped])  the monitoring tasks, in creation order
    \* inbound handlers and the result queue
    hpc,             \* [Handlers -> position of the handler coroutine]
    hev,             \* [Handlers -> the inbound event being handled]
    htrigger,        \* [Handlers -> trigger whose switch call is awaited]
    hlog,            \* [Handlers -> history of the current invocation]
    result_queue,    \* Seq(outbound events)   get_result_queue()
    delivered,       \* Seq(outbound events)   what the consumer's get() returned
    puts,            \* Seq(outbound events)   every put(), in call order
    invocations      \* Nat                inbound events dispatched so far

metaVars == <<duration, width, height, probe_ctx, probe, thumb>>
fileVars == <<constructed, lock_count, is_broken, disk, flog,
             duration, width, height, probe_ctx, probe, thumb>>
uploadVars == <<queue, wpc, wfile, attempt_number, ulog>>
alarmVars == <<is_behind_nvr, conf_enabled, started, spawned, tasks>>
handlerVars == <<hpc, hev, htrigger, hlog, result_queue, delivered, puts,
                 invocations>>
vars == <<constructed, lock_count, is_broken, disk, flog,
          duration, width, height, probe_ctx, probe, thumb,
          queue, wpc, wfile, attempt_number, ulog,
          is_behind_nvr, conf_enabled, started, spawned, tasks,
          hpc, hev, htrigger, hlog, result_queue, delivered, puts, invocations>>

\* ---------------------------------------------------------------- events

NoEvent == [kind |-> "none", type |-> NoTrigger, state |-> FALSE]

\* outcome of a service or device call: still awaited, returned, or raised
Pending == [raised |-> "pending", val |-> None]
Returned(v) == [raised |-> "", val |-> v]
Raised(cls, m) == [raised |-> cls, val |-> m]

NoLog == [msg |-> 0, switches |-> <<>>, api |-> "", svc |-> Pending, put |-> <<>>]

\* A freshly built AlarmService (alarm.py:45), no handler running
IdleHandlers ==
    /\ started = FALSE
    /\ spawned = 0
    /\ tasks = <<>>
    /\ hpc = [h \in Handlers |-> "idle"]
    /\ hev = [h \in Handlers |-> NoEvent]
    /\ htrigger = [h \in Handlers |-> NoTrigger]
    /\ hlog = [h \in Handlers |-> NoLog]
    /\ result_queue = <<>>
    /\ delivered = <<>>
    /\ puts = <<>>
    /\ invocations = 0

\* ---------------------------------------------------------------- DvrFile

\* ffprobe results (GetFfprobeContextTask.run): nothing, or a dict; the
\* duration is the text of a decimal number, kept here in tenths of a second
EmptyCtx == <<>>
VideoStream == [codec_type |-> "video", height |-> 720, width |-> 1280]
AudioStream == [codec_type |-> "audio"]
FullCtx == [format |-> [duration |-> 127], streams |-> <<AudioStream, VideoStream>>]
ProbeContexts ==
    {EmptyCtx,
     FullCtx,
     [format |-> [duration |-> 127], streams |-> <<AudioStream>>],
     [format |-> [size |-> 1], streams |-> <<VideoStream>>],
     [format |-> [duration |-> 127],
      streams |-> <<[codec_type |-> "video", width |-> 1280]>>],
     [format |-> [duration |-> 127],
      streams |-> <<[codec_type |-> "video", height |-> 720]>>],
     [format |-> [duration |-> 127]]}

InitCheckNegativeOnly(n) == n < 0

\* file_wrapper.py:17  if lock_count <= 0: raise RuntimeError
init_check(n) == n <= 0

\* file_wrapper.py:16-34  DvrFile.__init__(filename, lock_count, cam): raises
\* and yields no object, or sets the fields
Construct(f, n) ==
    /\ ~constructed[f]
    /\ IF init_check(n)
          THEN /\ flog' = [flog EXCEPT ![f] =
                             [init |-> n, decs |-> 0, probes |-> 0, ctor |-> "RuntimeError"]]
               /\ UNCHANGED <<constructed, lock_count, is_broken, metaVars>>
          ELSE /\ constructed' = [constructed EXCEPT ![f] = TRUE]
               /\ lock_count' = [lock_count EXCEPT ![f] = n]
               /\ is_broken' = [is_broken EXCEPT ![f] = FALSE]
               /\ duration' = [duration EXCEPT ![f] = Unset]
               /\ width' = [width EXCEPT ![f] = Unset]
               /\ height' = [height EXCEPT ![f] = Unset]
               /\ flog' = [flog EXCEPT ![f] = [init |-> n, decs |-> 0, probes |-> 0, ctor |-> "ok"]]
               /\ probe_ctx' = [probe_ctx EXCEPT ![f] = EmptyCtx]
               /\ UNCHANGED <<probe, thumb>>
    /\ UNCHANGED <<disk, uploadVars, alarmVars, handlerVars>>

\* file_wrapper.py:88-90  exists
exists(f) == disk[f] /= "missing"

\* file_wrapper.py:84-86  is_empty: stat() raises when the path is missing
is_empty(f) ==
    IF disk[f] = "missing" THEN "FileNotFoundError"
    ELSE IF disk[f] = "empty" THEN "true" ELSE "false"

\* file_wrapper.py:116-118  is_locked
is_locked(f) == lock_count[f] /= 0

DecrementNoGuard(n) == n - 1

\* file_wrapper.py:76-78  decrement_lock_count, on the counter's value
decrement_lock_count(n) == IF n > 0 THEN n - 1 ELSE n

\* file_wrapper.py:76-78  a holder of the file calls decrement_lock_count()
Decrement(f) ==
    /\ constructed[f]
    /\ flog[f].decs < MaxDecrements
    /\ lock_count' = [lock_count EXCEPT ![f] = decrement_lock_count(@)]
    /\ flog' = [flog EXCEPT ![f].decs = @ + 1]
    /\ UNCHANGED <<constructed, is_broken, disk, metaVars, uploadVars, alarmVars, handlerVars>>

\* file_wrapper.py:60  int(float(text)) of a duration given in tenths
int_float(tenths) == tenths \div 10

IsVideo(stream) == stream.codec_type = "video"

\* file_wrapper.py:54-58  video_streams
video_streams(ctx) == SelectSeq(ctx.streams, IsVideo)

\* file_wrapper.py:54-63  the list comprehension and the try block on a
\* non-empty ctx: the three assignments in order, stopping at the first
\* exception; cur holds the fields before the call
try_extract(ctx, cur) ==
    IF "streams" \notin DOMAIN ctx
       THEN [cur EXCEPT !.exc = "KeyError(streams)"]
    ELSE IF "format" \notin DOMAIN ctx \/ "duration" \notin DOMAIN ctx.format
       THEN [cur EXCEPT !.exc = "KeyError"]
    ELSE LET c1 == [cur EXCEPT !.duration = int_float(ctx.format.duration)] IN
         IF video_streams(ctx) = <<>>
            THEN [c1 EXCEPT !.exc = "IndexError"]
         ELSE IF "height" \notin DOMAIN video_streams(ctx)[1]
            THEN [c1 EXCEPT !.exc = "KeyError"]
         ELSE LET c2 == [c1 EXCEPT !.height = video_streams(ctx)[1].height] IN
              IF "width" \notin DOMAIN video_streams(ctx)[1]
                 THEN [c2 EXCEPT !.exc = "KeyError"]
                 ELSE [c2 EXCEPT !.width = video_streams(ctx)[1].width]

ProbeAssignsBroken(ctx, cur) ==
    IF DOMAIN ctx = {}
       THEN [cur EXCEPT !.is_broken = TRUE]
       ELSE [try_extract(ctx, cur) EXCEPT
                !.is_broken = (try_extract(ctx, cur).exc = "KeyError"),
                !.exc = IF @ = "KeyError" THEN "" ELSE @]

\* file_wrapper.py:49-67  _get_probe_ctx after the await: the fields of the
\* file and the exception that leaves the method ("" when it returns)
get_probe_ctx(ctx, cur) ==
    IF DOMAIN ctx = {}
       THEN [cur EXCEPT !.is_broken = TRUE]
       ELSE [try_extract(ctx, cur) EXCEPT
                !.is_broken = @ \/ (try_extract(ctx, cur).exc = "KeyError"),
                !.exc = IF @ = "KeyError" THEN "" ELSE @]

\* the fields of f that _get_probe_ctx reads and writes
Fields(f) == [is_broken |-> is_broken[f], duration |-> duration[f],
              height |-> height[f], width |-> width[f], exc |-> ""]

\* file_wrapper.py:73-74  make_context starts both steps; each is suspended
\* in its task
MakeContext(f) ==
    /\ constructed[f]
    /\ probe[f] /= "running" /\ thumb[f] /= "running"
    /\ flog[f].probes < MaxProbes
    /\ probe' = [probe EXCEPT ![f] = "running"]
    /\ thumb' = [thumb EXCEPT ![f] = "running"]
    /\ flog' = [flog EXCEPT ![f].probes = @ + 1]
    /\ UNCHANGED <<constructed, lock_count, is_broken, disk, duration, width,
                   height, probe_ctx, uploadVars, alarmVars, handlerVars>>

\* file_wrapper.py:50-67  GetFfprobeContextTask.run() returns ctx
ProbeDone(f, ctx) ==
    /\ probe[f] = "running"
    /\ LET r == get_probe_ctx(ctx, Fields(f)) IN
       /\ probe_ctx' = [probe_ctx EXCEPT ![f] = ctx]
       /\ is_broken' = [is_broken EXCEPT ![f] = r.is_broken]
       /\ duration' = [duration EXCEPT ![f] = r.duration]
       /\ height' = [height EXCEPT ![f] = r.height]
       /\ width' = [width EXCEPT ![f] = r.width]
       /\ probe' = [probe EXCEPT ![f] = IF r.exc = "" THEN "returned" ELSE r.exc]
    /\ UNCHANGED <<constructed, lock_count, disk, flog, thumb,
                   uploadVars, alarmVars, handlerVars>>

\* file_wrapper.py:69-71  MakeThumbnailTask.run() returns ok
ThumbnailDone(f, ok) ==
    /\ thumb[f] = "running"
    /\ thumb' = [thumb EXCEPT ![f] = IF ok THEN "made" ELSE "failed"]
    /\ UNCHANGED <<constructed, lock_count, is_broken, disk, flog, duration,
                   width, height, probe_ctx, probe,
                   uploadVars, alarmVars, handlerVars>>

\* the fields of a file right after DvrFile.__init__ (file_wrapper.py:29-34)
Fresh == [is_broken |-> FALSE, duration |-> Unset, height |-> Unset,
          width |-> Unset, exc |-> ""]

\* make_context has returned on every file: the probe gave nothing on the
\* broken ones and a full result on the others
ContextMade ==
    /\ probe_ctx = [f \in Files |-> IF is_broken[f] THEN EmptyCtx ELSE FullCtx]
    /\ duration = [f \in Files |-> get_probe_ctx(probe_ctx[f], Fresh).duration]
    /\ width = [f \in Files |-> get_probe_ctx(probe_ctx[f], Fresh).width]
    /\ height = [f \in Files |-> get_probe_ctx(probe_ctx[f], Fresh).height]
    /\ probe = [f \in Files |-> "returned"]
    /\ thumb = [f \in Files |-> "made"]

\* make_context was not called on any file
NoContext ==
    /\ duration = [f \in Files |-> Unset]
    /\ width = [f \in Files |-> Unset]
    /\ height = [f \in Files |-> Unset]
    /\ probe_ctx = [f \in Files |-> EmptyCtx]
    /\ probe = [f \in Files |-> "none"]
    /\ thumb = [f \in Files |-> "none"]

\* No DvrFile has been created yet; the recordings are on disk.
InitFile ==
    /\ constructed = [f \in Files |-> FALSE]
    /\ lock_count = [f \in Files |-> 0]
    /\ is_broken = [f \in Files |-> FALSE]
    /\ disk = [f \in Files |-> "data"]
    /\ flog = [f \in Files |-> [init |-> 0, decs |-> 0, probes |-> 0, ctor |-> "none"]]
    /\ NoContext
    /\ queue = [w \in Workers |-> <<>>]
    /\ wpc = [w \in Workers |-> "get"]
    /\ wfile = [w \in Workers |-> 0]
    /\ attempt_number = [w \in Workers |-> 0]
    /\ ulog = [w \in Workers |-> [f \in Files |->
                [status |-> "none", attempts |-> 0, calls |-> 0, fails |-> 0,
                 sent |-> 0, decs |-> 0]]]
    /\ is_behind_nvr = FALSE
    /\ conf_enabled = {}
    /\ IdleHandlers

NextFile ==
    \/ \E f \in Files, n \in -1..MaxLock : Construct(f, n)
    \/ \E f \in Files : Decrement(f)

SpecFile == InitFile /\ [][NextFile]_vars

\* ---------------------------------------------------------------- upload task

ValidateEmptyFirst(f) ==
    IF is_empty(f) = "FileNotFoundError" THEN "FileNotFoundError"
    ELSE IF is_empty(f) = "true" THEN "false"
    ELSE IF ~exists(f) THEN "false"
    ELSE IF is_broken[f] THEN "false"
    ELSE "true"

\* telegram.py:42-52  _validate_file: "true", "false", or the exception a
\* property raised while being evaluated
validate_file(f) ==
    IF ~exists(f) THEN "false"
    ELSE IF is_broken[f] THEN "false"
    ELSE IF is_empty(f) = "FileNotFoundError" THEN "FileNotFoundError"
    ELSE IF is_empty(f) = "true" THEN "false"
    ELSE "true"

EmptyLog == [status |-> "none", attempts |-> 0, calls |-> 0, fails |-> 0,
             sent |-> 0, decs |-> 0]

Bump(r, field) == [r EXCEPT ![field] = @ + 1]

StopAfterOneMore(k) == k >= UPLOAD_RETRY_STOP_AFTER + 1

\* telegram.py:31-34  stop_after_attempt(_UPLOAD_RETRY_STOP_AFTER)
stop_after_attempt(k) == k >= UPLOAD_RETRY_STOP_AFTER

DecrementTwice(n) == decrement_lock_count(decrement_lock_count(n))

\* telegram.py:29  file_.decrement_lock_count() in _process_queue
worker_decrement(n) == decrement_lock_count(n)

\* telegram.py:25-29 and 31-40: _upload_video returned normally, so
\* _process_queue decrements the lock and loops back to queue.get()
UploadReturned(w, f, r) ==
    /\ lock_count' = [lock_count EXCEPT ![f] = worker_decrement(@)]
    /\ flog' = [flog EXCEPT ![f].decs = @ + 1]
    /\ ulog' = [ulog EXCEPT ![w][f] = [Bump(r, "decs") EXCEPT !.status = "finished"]]
    /\ wpc' = [wpc EXCEPT ![w] = "get"]
    /\ wfile' = [wfile EXCEPT ![w] = NoFile]
    /\ attempt_number' = [attempt_number EXCEPT ![w] = 0]

\* telegram.py:36-40 with the retry decorator 31-34: attempt k of __upload
\* raised; the exception is logged and re-raised into tenacity, which either
\* sleeps wait_fixed and retries, or raises RetryError out of _upload_video;
\* nothing in _process_queue (25-29) catches it, so the worker task ends there.
UploadRaised(w, f, r, k) ==
    /\ IF stop_after_attempt(k)
          THEN /\ wpc' = [wpc EXCEPT ![w] = "dead"]
               /\ ulog' = [ulog EXCEPT ![w][f] =
                              [Bump(r, "fails") EXCEPT !.status = "retry_error"]]
          ELSE /\ wpc' = [wpc EXCEPT ![w] = "sleep"]
               /\ ulog' = [ulog EXCEPT ![w][f] = Bump(r, "fails")]
    /\ wfile' = [wfile EXCEPT ![w] = f]
    /\ attempt_number' = [attempt_number EXCEPT ![w] = k]
    /\ UNCHANGED <<lock_count, flog>>

\* telegram.py:35-37, 54-62: attempt k of _upload_video up to its first
\* suspension: validate, then either return, raise, or call send_chat_action
StartAttempt(w, f, r, k) ==
    LET r1 == [Bump(r, "attempts") EXCEPT !.status = "uploading"] IN
    CASE validate_file(f) = "true" ->
            /\ wpc' = [wpc EXCEPT ![w] = "send_chat_action"]
            /\ ulog' = [ulog EXCEPT ![w][f] = Bump(r1, "calls")]
            /\ wfile' = [wfile EXCEPT ![w] = f]
            /\ attempt_number' = [attempt_number EXCEPT ![w] = k]
            /\ UNCHANGED <<lock_count, flog>>
      [] validate_file(f) = "false" -> UploadReturned(w, f, r1)
      [] OTHER -> UploadRaised(w, f, r1, k)

\* The recording pipeline hands a finished file to every destination's queue,
\* once per destination.
Enqueue(f) ==
    /\ constructed[f]
    /\ \A w \in Workers : ulog[w][f].status = "none"
    /\ queue' = [w \in Workers |-> Append(queue[w], f)]
    /\ ulog' = [w \in Workers |-> [ulog[w] EXCEPT ![f].status = "queued"]]
    /\ UNCHANGED <<fileVars, wpc, wfile, attempt_number, alarmVars, handlerVars>>

\* telegram.py:25-28  file_ = await self._queue.get(); first attempt
Get(w) ==
    /\ wpc[w] = "get"
    /\ queue[w] /= <<>>
    /\ queue' = [queue EXCEPT ![w] = Tail(@)]
    /\ StartAttempt(w, Head(queue[w]), ulog[w][Head(queue[w])], 1)
    /\ UNCHANGED <<constructed, is_broken, disk, metaVars, alarmVars, handlerVars>>

\* telegram.py:60-63  send_chat_action completes: send_video is called, or
\* the transport error leaves __upload
ChatActionDone(w) ==
    /\ wpc[w] = "send_chat_action"
    /\ \/ /\ wpc' = [wpc EXCEPT ![w] = "send_video"]
          /\ UNCHANGED <<lock_count, flog, wfile, attempt_number, ulog>>
       \/ UploadRaised(w, wfile[w], ulog[w][wfile[w]], attempt_number[w])
    /\ UNCHANGED <<constructed, is_broken, disk, metaVars, queue, alarmVars, handlerVars>>

\* telegram.py:63-74  send_video completes: __upload returns, or the
\* transport error leaves __upload
SendVideoDone(w) ==
    /\ wpc[w] = "send_video"
    /\ \/ UploadReturned(w, wfile[w], Bump(ulog[w][wfile[w]], "sent"))
       \/ UploadRaised(w, wfile[w], ulog[w][wfile[w]], attempt_number[w])
    /\ UNCHANGED <<constructed, is_broken, disk, metaVars, queue, alarmVars, handlerVars>>

\* telegram.py:31-34  wait_fixed elapsed: tenacity calls _upload_video again
RetryWake(w) ==
    /\ wpc[w] = "sleep"
    /\ StartAttempt(w, wfile[w], ulog[w][wfile[w]], attempt_number[w] + 1)
    /\ UNCHANGED <<constructed, is_broken, disk, metaVars, queue, alarmVars, handlerVars>>

\* Files that finished recording: constructed with one lock per destination,
\* probed (so possibly broken), on a disk that may hold anything.
InitUpload ==
    /\ constructed = [f \in Files |-> TRUE]
    /\ lock_count = [f \in Files |-> Cardinality(Workers)]
    /\ is_broken \in [Files -> BOOLEAN]
    /\ disk \in [Files -> {"missing", "empty", "data"}]
    /\ flog = [f \in Files |-> [init |-> Cardinality(Workers), decs |-> 0,
                                 probes |-> 1, ctor |-> "ok"]]
    /\ ContextMade
    /\ queue = [w \in Workers |-> <<>>]
    /\ wpc = [w \in Workers |-> "get"]
    /\ wfile = [w \in Workers |-> NoFile]
    /\ attempt_number = [w \in Workers |-> 0]
    /\ ulog = [w \in Workers |-> [f \in Files |-> EmptyLog]]
    /\ is_behind_nvr = FALSE
    /\ conf_enabled = {}
    /\ IdleHandlers

NextUpload ==
    \/ \E f \in Files : Enqueue(f)
    \/ \E w \in Workers : Get(w)
    \/ \E w \in Workers : ChatActionDone(w)
    \/ \E w \in Workers : SendVideoDone(w)
    \/ \E w \in Workers : RetryWake(w)

SpecUpload == InitUpload /\ [][NextUpload]_vars

(***************************************************************************)
(* The life of one recorded file: constructed, given its context, handed   *)
(* with one lock per upload destination, given its context, handed to the  *)
(* upload workers, released by them.  Files do not share state, so one     *)
(* file is followed.                                                       *)
(***************************************************************************)
Recorded == {1}

\* the file is handed to the workers once make_context has finished
Publish(f) ==
    /\ probe[f] \notin {"none", "running"}
    /\ thumb[f] \notin {"none", "running"}
    /\ Enqueue(f)

InitContext == InitFile

NextContext ==
    \/ \E f \in Recorded : Construct(f, NumWorkers)
    \/ \E f \in Recorded : MakeContext(f)
    \/ \E f \in Recorded, ctx \in ProbeContexts : ProbeDone(f, ctx)
    \/ \E f \in Recorded, ok \in BOOLEAN : ThumbnailDone(f, ok)
    \/ \E f \in Recorded : Publish(f)
    \/ \E w \in Workers : Get(w)
    \/ \E w \in Workers : ChatActionDone(w)
    \/ \E w \in Workers : SendVideoDone(w)
    \/ \E w \in Workers : RetryWake(w)

SpecContext == InitContext /\ [][NextContext]_vars


\* ---------------------------------------------------------------- AlarmService

\* device outcomes of HikvisionAPI.switch: an optional text, or the API error
ApiOutcomes ==
    {[err |-> "", text |-> None], [err |-> "", text |-> <<"OK">>],
     [err |-> "HikvisionAPIError", text |-> None]}

SwitchSwallowsError(t, o) == Returned(o.text)

\* alarm.py:107-116  trigger_switch: the outcome of the call, given the
\* outcome o of self._api.switch
trigger_switch(t, o) ==
    IF o.err = "HikvisionAPIError"
       THEN Raised("ServiceRuntimeError", <<"Switch encountered an error", t>>)
       ELSE Returned(o.text)

StartNoStartedCheck(nvr, st) == IF nvr THEN "return" ELSE "enable"

StartNoNvrCheck(nvr, st) == IF st THEN "raise" ELSE "enable"

\* alarm.py:69-76  the two guards of start()
start_guard(nvr, st) ==
    IF nvr THEN "return"
    ELSE IF st THEN "raise"
    ELSE "enable"

\* alarm.py:98-100  the guard of stop()
stop_guard(st) == IF ~st THEN "raise" ELSE "clear"

NextIgnoringConf(t0) == IF t0 < NumTriggers THEN t0 + 1 ELSE NoTrigger

\* alarm.py:91-94  _enable_triggers_on_camera: the next trigger after t0, in
\* the order of ALARM_TRIGGERS, that the configuration enables (or NoTrigger)
next_enabled(t0) ==
    IF \E t \in ALARM_TRIGGERS : t > t0 /\ t \in conf_enabled
       THEN CHOOSE t \in ALARM_TRIGGERS :
               /\ t > t0 /\ t \in conf_enabled
               /\ \A u \in ALARM_TRIGGERS : (u > t0 /\ u \in conf_enabled) => t <= u
       ELSE NoTrigger

\* ---------------------------------------------------------------- handlers

\* a handler slot is free to take the next inbound event
Free(h) == hpc[h] \in {"idle", "done", "raised"} /\ invocations < MaxInvocations

\* the bookkeeping of a new invocation: a fresh message handle
NewLog == [NoLog EXCEPT !.msg = invocations + 1]

QueuePutFirst(q, e) == <<e>> \o q

\* the result queue's put: the event joins the end of the queue
queue_put(q, e) == Append(q, e)

\* the result queue's get on a non-empty queue: the event returned and the
\* queue left
queue_get(q) == [event |-> Head(q), rest |-> Tail(q)]

\* inbound.py:56-65, 102-111, 129-139, 158-168  await self._result_queue.put(e)
\* as the handler's last statement; hl is the invocation's history so far
PutAndReturn(h, e, hl) ==
    /\ result_queue' = queue_put(result_queue, e)
    /\ puts' = Append(puts, e)
    /\ delivered' = delivered
    /\ hlog' = [hlog EXCEPT ![h] = [hl EXCEPT !.put = Append(@, e)]]
    /\ hpc' = [hpc EXCEPT ![h] = "done"]

\* an exception leaves _handle
Propagate(h, hl) ==
    /\ result_queue' = result_queue
    /\ UNCHANGED <<delivered, puts>>
    /\ hlog' = [hlog EXCEPT ![h] = hl]
    /\ hpc' = [hpc EXCEPT ![h] = "raised"]

ExceptNothing(res) == FALSE

\* inbound.py:126, 155  except ServiceRuntimeError
except_ServiceRuntimeError(res) == res.raised = "ServiceRuntimeError"

\* inbound.py:120-127, 149-156  text after the try statement
toggle_text(res) ==
    IF except_ServiceRuntimeError(res) THEN res.val ELSE None

\* inbound.py:120-139 (TaskAlarmConf) and 149-168 (TaskStreamConf): the
\* service call ended with res; catch ServiceRuntimeError, put the reply
ToggleEnd(h, ev, res, hl) ==
    LET hl1 == [hl EXCEPT !.svc = res] IN
    IF res.raised = "" \/ except_ServiceRuntimeError(res)
       THEN PutAndReturn(h, [event |-> ev.kind, type |-> ev.type,
                             state |-> ev.state, text |-> toggle_text(res),
                             msg |-> hl.msg], hl1)
       ELSE Propagate(h, hl1)

\* a monitoring task as _start_service_task creates it: about to check the
\* service's started flag, and not yet asked to stop
NewTask == [pc |-> "check", stopped |-> FALSE]

\* alarm.py:78-79  every enabled trigger is switched: set the flag and
\* create the monitoring task
StartCompletes ==
    /\ started' = TRUE
    /\ spawned' = spawned + 1
    /\ tasks' = Append(tasks, NewTask)

\* alarm.py:77, 91-94, 107-112  start() calls trigger_switch for trigger t and
\* is suspended in self._api.switch
StartSwitches(h, t, hl) ==
    /\ hpc' = [hpc EXCEPT ![h] = "switch"]
    /\ htrigger' = [htrigger EXCEPT ![h] = t]
    /\ hlog' = [hlog EXCEPT ![h] = [hl EXCEPT !.switches = Append(@, <<t, TRUE>>)]]
    /\ UNCHANGED <<started, spawned, tasks, result_queue, delivered, puts>>

\* inbound.py:114-139  TaskAlarmConf._handle, up to its first suspension;
\* cam.service_manager.start/stop reach AlarmService.start (alarm.py:67-79)
\* and AlarmService.stop (alarm.py:96-100)
AlarmConfHandle(h, state) ==
    /\ Free(h)
    /\ invocations' = invocations + 1
    /\ LET ev == [kind |-> "AlertConf", type |-> NoTrigger, state |-> state] IN
       /\ hev' = [hev EXCEPT ![h] = ev]
       /\ IF state
          THEN CASE start_guard(is_behind_nvr, started) = "return" ->
                      /\ ToggleEnd(h, ev, Returned(None), NewLog)
                      /\ UNCHANGED <<started, spawned, tasks, htrigger>>
                 [] start_guard(is_behind_nvr, started) = "raise" ->
                      /\ ToggleEnd(h, ev, Raised("ServiceRuntimeError",
                                      <<"Alarm (alert) mode already started">>), NewLog)
                      /\ UNCHANGED <<started, spawned, tasks, htrigger>>
                 [] OTHER ->
                      IF next_enabled(NoTrigger) = NoTrigger
                         THEN /\ StartCompletes
                              /\ ToggleEnd(h, ev, Returned(None), NewLog)
                              /\ UNCHANGED htrigger
                         ELSE StartSwitches(h, next_enabled(NoTrigger), NewLog)
          ELSE IF stop_guard(started) = "raise"
                  THEN /\ ToggleEnd(h, ev, Raised("ServiceRuntimeError",
                                      <<"Alarm alert mode already stopped">>), NewLog)
                       /\ UNCHANGED <<started, spawned, tasks, htrigger>>
                  ELSE /\ started' = FALSE
                       /\ ToggleEnd(h, ev, Returned(None), NewLog)
                       /\ tasks' = [t \in DOMAIN tasks |->
                                      [tasks[t] EXCEPT !.stopped = TRUE]]
                       /\ UNCHANGED <<spawned, htrigger>>
    /\ UNCHANGED <<fileVars, uploadVars, is_behind_nvr, conf_enabled>>

\* alarm.py:91-94, 111-116, 77-79  a switch call made by start() ends with
\* device outcome o: the next enabled trigger is switched, or start() sets the
\* flag and spawns the task, or the ServiceRuntimeError leaves start()
StartSwitchDone(h, o) ==
    /\ hpc[h] = "switch"
    /\ hev[h].kind = "AlertConf"
    /\ LET res == trigger_switch(htrigger[h], o)
           hl == [hlog[h] EXCEPT !.api = o.err] IN
       IF res.raised /= ""
          THEN /\ ToggleEnd(h, hev[h], res, hl)
               /\ UNCHANGED <<started, spawned, tasks, htrigger>>
          ELSE IF next_enabled(htrigger[h]) = NoTrigger
                  THEN /\ StartCompletes
                       /\ ToggleEnd(h, hev[h], Returned(None), hl)
                       /\ UNCHANGED htrigger
                  ELSE StartSwitches(h, next_enabled(htrigger[h]), hl)
    /\ UNCHANGED <<fileVars, uploadVars, is_behind_nvr, conf_enabled,
                   hev, invocations>>

\* inbound.py:142-156  TaskStreamConf._handle calls the stream service's
\* start or stop through cam.service_manager and awaits it
StreamConfHandle(h, state) ==
    /\ Free(h)
    /\ invocations' = invocations + 1
    /\ hev' = [hev EXCEPT ![h] = [kind |-> "Stream", type |-> NoTrigger, state |-> state]]
    /\ hpc' = [hpc EXCEPT ![h] = "stream_service"]
    /\ hlog' = [hlog EXCEPT ![h] = NewLog]
    /\ UNCHANGED <<fileVars, uploadVars, alarmVars, htrigger, result_queue,
                   delivered, puts>>

\* outcomes of a stream service's start/stop
StreamOutcomes ==
    {Returned(None),
     Raised("ServiceRuntimeError", <<"Stream already started">>),
     Raised("Exception", <<"stream failure">>)}

\* inbound.py:149-168  the stream service call ends
StreamServiceDone(h, res) ==
    /\ hpc[h] = "stream_service"
    /\ ToggleEnd(h, hev[h], res, hlog[h])
    /\ UNCHANGED <<fileVars, uploadVars, alarmVars, hev, htrigger, invocations>>

\* inbound.py:89-101  TaskDetectionConf._handle calls trigger_switch
\* (alarm.py:107-112) and is suspended in self._api.switch
DetectionConfHandle(h, t, state) ==
    /\ Free(h)
    /\ invocations' = invocations + 1
    /\ hev' = [hev EXCEPT ![h] = [kind |-> "DetectionConf", type |-> t, state |-> state]]
    /\ hpc' = [hpc EXCEPT ![h] = "switch"]
    /\ htrigger' = [htrigger EXCEPT ![h] = t]
    /\ hlog' = [hlog EXCEPT ![h] = [NewLog EXCEPT !.switches = <<<<t, state>>>>]]
    /\ UNCHANGED <<fileVars, uploadVars, alarmVars, result_queue,
                   delivered, puts>>

\* inbound.py:101-111 with alarm.py:111-116  the switch call ends with device
\* outcome o: the returned text goes into the reply; a ServiceRuntimeError is
\* caught by nothing in _handle
DetectionSwitchDone(h, o) ==
    /\ hpc[h] = "switch"
    /\ hev[h].kind = "DetectionConf"
    /\ LET res == trigger_switch(htrigger[h], o)
           hl == [hlog[h] EXCEPT !.svc = res] IN
       IF res.raised = ""
          THEN PutAndReturn(h, [event |-> "DetectionConf", type |-> hev[h].type,
                                state |-> hev[h].state, text |-> res.val,
                                msg |-> hl.msg], hl)
          ELSE Propagate(h, hl)
    /\ UNCHANGED <<fileVars, uploadVars, alarmVars, hev, htrigger, invocations>>

\* inbound.py:47-54  TaskTakeSnapshot._handle awaits cam.take_snapshot
TakeSnapshotHandle(h) ==
    /\ Free(h)
    /\ invocations' = invocations + 1
    /\ hev' = [hev EXCEPT ![h] = [kind |-> "GetPic", type |-> NoTrigger, state |-> FALSE]]
    /\ hpc' = [hpc EXCEPT ![h] = "take_snapshot"]
    /\ hlog' = [hlog EXCEPT ![h] = NewLog]
    /\ UNCHANGED <<fileVars, uploadVars, alarmVars, htrigger, result_queue,
                   delivered, puts>>

\* outcomes of cam.take_snapshot: the image, or an exception
SnapshotOutcomes ==
    {Returned(<<"img">>),
     Raised("HikvisionAPIError", <<"snapshot failed">>),
     Raised("Exception", <<"snapshot failed">>)}

ExceptApiErrorOnly(res) == res.raised = "HikvisionAPIError"

\* inbound.py:55  except Exception
except_Exception(res) == res.raised /= ""

\* inbound.py:51-79  take_snapshot ends: the failure text or the snapshot is
\* put on the result queue
TakeSnapshotDone(h, res) ==
    /\ hpc[h] = "take_snapshot"
    /\ LET hl == [hlog[h] EXCEPT !.svc = res] IN
       IF res.raised = ""
          THEN PutAndReturn(h, [event |-> "GetPic", type |-> NoTrigger,
                                state |-> FALSE, text |-> None,
                                msg |-> hl.msg], hl)
          ELSE IF except_Exception(res)
                  THEN PutAndReturn(h, [event |-> "SendText", type |-> NoTrigger,
                                        state |-> FALSE,
                                        text |-> <<"Failed to take picture">> \o res.val,
                                        msg |-> hl.msg], hl)
                  ELSE Propagate(h, hl)
    /\ UNCHANGED <<fileVars, uploadVars, alarmVars, hev, htrigger, invocations>>

\* The bot after start-up: no recording yet, upload workers waiting on their
\* queues, alarm service stopped, no handler running.
IdlePipeline ==
    /\ constructed = [f \in Files |-> FALSE]
    /\ lock_count = [f \in Files |-> 0]
    /\ is_broken = [f \in Files |-> FALSE]
    /\ disk = [f \in Files |-> "missing"]
    /\ flog = [f \in Files |-> [init |-> 0, decs |-> 0, probes |-> 0, ctor |-> "none"]]
    /\ NoContext
    /\ queue = [w \in Workers |-> <<>>]
    /\ wpc = [w \in Workers |-> "get"]
    /\ wfile = [w \in Workers |-> NoFile]
    /\ attempt_number = [w \in Workers |-> 0]
    /\ ulog = [w \in Workers |-> [f \in Files |-> EmptyLog]]

\* Alarm and stream toggles on a camera whose relay flag and enabled triggers
\* are whatever the configuration says.
InitAlarm ==
    /\ IdlePipeline
    /\ is_behind_nvr \in BOOLEAN
    /\ conf_enabled \in SUBSET ALARM_TRIGGERS
    /\ IdleHandlers

NextAlarm ==
    \/ \E h \in Handlers, state \in BOOLEAN : AlarmConfHandle(h, state)
    \/ \E h \in Handlers, o \in ApiOutcomes : StartSwitchDone(h, o)
    \/ \E h \in Handlers, state \in BOOLEAN : StreamConfHandle(h, state)
    \/ \E h \in Handlers, res \in StreamOutcomes : StreamServiceDone(h, res)

SpecAlarm == InitAlarm /\ [][NextAlarm]_vars

(***************************************************************************)
(* The monitoring task: each cycle it rechecks the service's started flag  *)
(* and exits when the flag is cleared, else waits for the camera's next    *)
(* alert.  Every task that can take a step eventually does.                *)
(***************************************************************************)
MonitorCheck(t) ==
    /\ t \in DOMAIN tasks
    /\ tasks[t].pc = "check"
    /\ tasks' = [tasks EXCEPT ![t].pc = IF started THEN "poll" ELSE "exited"]
    /\ UNCHANGED <<fileVars, uploadVars, handlerVars,
                   is_behind_nvr, conf_enabled, started, spawned>>

MonitorPoll(t) ==
    /\ t \in DOMAIN tasks
    /\ tasks[t].pc = "poll"
    /\ tasks' = [tasks EXCEPT ![t].pc = "check"]
    /\ UNCHANGED <<fileVars, uploadVars, handlerVars,
                   is_behind_nvr, conf_enabled, started, spawned>>

TaskIds == 1..MaxInvocations

InitMonitor == InitAlarm

NextMonitor ==
    \/ \E h \in Handlers, state \in BOOLEAN : AlarmConfHandle(h, state)
    \/ \E h \in Handlers, o \in ApiOutcomes : StartSwitchDone(h, o)
    \/ \E t \in TaskIds : MonitorCheck(t)
    \/ \E t \in TaskIds : MonitorPoll(t)

SpecMonitor ==
    /\ InitMonitor /\ [][NextMonitor]_vars
    /\ \A t \in TaskIds : WF_vars(MonitorCheck(t)) /\ WF_vars(MonitorPoll(t))

\* Snapshot and detection-toggle commands.
InitHandlers ==
    /\ IdlePipeline
    /\ is_behind_nvr = FALSE
    /\ conf_enabled = {}
    /\ IdleHandlers

NextHandlers ==
    \/ \E h \in Handlers, t \in ALARM_TRIGGERS, state \in BOOLEAN :
          DetectionConfHandle(h, t, state)
    \/ \E h \in Handlers, o \in ApiOutcomes : DetectionSwitchDone(h, o)
    \/ \E h \in Handlers : TakeSnapshotHandle(h)
    \/ \E h \in Handlers, res \in SnapshotOutcomes : TakeSnapshotDone(h, res)

SpecHandlers == InitHandlers /\ [][NextHandlers]_vars

\* the delivery consumer takes the next outbound event off the result queue
ResultGet ==
    /\ result_queue /= <<>>
    /\ delivered' = Append(delivered, queue_get(result_queue).event)
    /\ result_queue' = queue_get(result_queue).rest
    /\ UNCHANGED <<fileVars, uploadVars, alarmVars,
                   hpc, hev, htrigger, hlog, puts, invocations>>

\* Snapshot and detection-toggle commands with the consumer running.
InitDelivery == InitHandlers

NextDelivery == NextHandlers \/ ResultGet

SpecDelivery == InitDelivery /\ [][NextDelivery]_vars

\* ---------------------------------------------------------------- properties

\* _upload_video has been left for good for f on worker w
Left(w, f) == ulog[w][f].status \in {"finished", "retry_error"}

\* f fails one of the three checks of _validate_file
Invalid(f) == disk[f] = "missing" \/ is_broken[f] \/ disk[f] = "empty"

\* C1: a file that passes validation and whose transport failed on every
\* attempt has had exactly UPLOAD_RETRY_STOP_AFTER transport attempts and
\* exactly one lock decrement by its worker once the worker is through with it.
C1_AlwaysFailingStillDecrements ==
    \A w \in Workers, f \in Files :
        (/\ ~Invalid(f)
         /\ Left(w, f)
         /\ ulog[w][f].sent = 0) =>
            /\ ulog[w][f].calls = UPLOAD_RETRY_STOP_AFTER
            /\ ulog[w][f].decs = 1

\* C2: a file whose upload failed on every attempt leaves the worker loop
\* running (the worker task has not ended).
C2_FailureDoesNotHaltWorker ==
    \A w \in Workers :
        (\E f \in Files : ulog[w][f].status = "retry_error") => wpc[w] /= "dead"

\* C3: for a file that does not exist, is broken or is empty, the transport
\* is never invoked, __upload is entered once and never retried, and once the
\* worker is through with it the lock was decremented by exactly one call.
C3_InvalidFileSkipsTransport ==
    \A w \in Workers, f \in Files :
        Invalid(f) =>
            /\ ulog[w][f].calls = 0
            /\ ulog[w][f].sent = 0
            /\ ulog[w][f].attempts <= 1
            /\ wfile[w] /= f
            /\ ulog[w][f].status \in {"none", "queued", "finished"}
            /\ ulog[w][f].status = "finished" =>
                  /\ ulog[w][f].attempts = 1
                  /\ ulog[w][f].decs = 1
                  /\ lock_count[f] = flog[f].init - flog[f].decs
            /\ ulog[w][f].status /= "finished" => ulog[w][f].decs = 0

C3_Witness ==
    \E w \in Workers, f \in Files :
        /\ disk[f] = "missing"
        /\ ulog[w][f].status = "finished"
        /\ ulog[w][f].decs = 1
        /\ \E g \in Files : g /= f /\ disk[g] = "empty" /\ ~is_broken[g]
                            /\ ulog[w][g].status = "finished"

\* C4: for a valid file the worker gives up only after
\* UPLOAD_RETRY_STOP_AFTER failed attempts, so a transport that fails N-1
\* times and then succeeds (N up to the cap) is attempted exactly N times;
\* the file is then uploaded exactly once and its lock decremented by exactly
\* one call.
C4_RetryUntilSuccess ==
    \A w \in Workers, f \in Files :
        ~Invalid(f) =>
            /\ ulog[w][f].sent <= 1
            /\ ulog[w][f].status = "retry_error" =>
                  ulog[w][f].fails = UPLOAD_RETRY_STOP_AFTER
            /\ ulog[w][f].status = "finished" =>
                  /\ ulog[w][f].sent = 1
                  /\ ulog[w][f].calls = ulog[w][f].fails + 1
                  /\ ulog[w][f].attempts = ulog[w][f].calls
                  /\ ulog[w][f].calls \in 1..UPLOAD_RETRY_STOP_AFTER
                  /\ ulog[w][f].decs = 1
                  /\ lock_count[f] = flog[f].init - flog[f].decs
            /\ ulog[w][f].status /= "finished" => ulog[w][f].decs = 0

C4_Witness ==
    \E w \in Workers, f \in Files :
        /\ ~Invalid(f)
        /\ ulog[w][f].status = "finished"
        /\ ulog[w][f].fails = UPLOAD_RETRY_STOP_AFTER - 1
        /\ ulog[w][f].calls = UPLOAD_RETRY_STOP_AFTER
        /\ ulog[w][f].sent = 1

\* the invocation of handler h has ended (returned or raised)
Ended(h) == hpc[h] \in {"done", "raised"}

\* the events the invocation of h put are on the result queue
OnQueue(h) ==
    \A i \in 1..Len(hlog[h].put) :
        \E j \in 1..Len(result_queue) : result_queue[j] = hlog[h].put[i]

\* C5: every detection-toggle invocation ends by returning after it put
\* exactly one outbound event carrying the requested state; the event's text
\* is the switch's returned string on success and the error's message when
\* the switch failed with a device-API error (nothing is raised out of the
\* handler).
C5_DetectionToggleAlwaysReplies ==
    \A h \in Handlers :
        (hev[h].kind = "DetectionConf" /\ Ended(h)) =>
            /\ hpc[h] = "done"
            /\ Len(hlog[h].put) = 1
            /\ hlog[h].put[1].state = hev[h].state
            /\ hlog[h].put[1].text = hlog[h].svc.val

\* this step dispatches a new inbound event of the given kind to handler h
NewCall(h, kind, state) ==
    /\ hlog'[h].msg /= hlog[h].msg
    /\ hev'[h].kind = kind
    /\ hev'[h].state = state

\* C6: start() on a started service of a non-relay camera, and stop() on a
\* service that is not started, raise ServiceRuntimeError and leave started
\* unchanged, switch no trigger and spawn no monitoring task.
C6_InvalidTransitionFails ==
    [][\A h \in Handlers :
         /\ (NewCall(h, "AlertConf", TRUE) /\ ~is_behind_nvr /\ started) =>
               /\ hlog'[h].svc = Raised("ServiceRuntimeError",
                                        <<"Alarm (alert) mode already started">>)
               /\ started' = started
               /\ spawned' = spawned
               /\ hlog'[h].switches = <<>>
               /\ hpc'[h] /= "switch"
         /\ (NewCall(h, "AlertConf", FALSE) /\ ~started) =>
               /\ hlog'[h].svc = Raised("ServiceRuntimeError",
                                        <<"Alarm alert mode already stopped">>)
               /\ started' = started
               /\ spawned' = spawned
               /\ hlog'[h].switches = <<>>
               /\ hpc'[h] /= "switch"]_vars

C6_Witness ==
    /\ ~is_behind_nvr
    /\ started
    /\ \E h1, h2 \in Handlers :
         /\ hev[h1] = [kind |-> "AlertConf", type |-> NoTrigger, state |-> TRUE]
         /\ hlog[h1].svc = Raised("ServiceRuntimeError",
                                  <<"Alarm (alert) mode already started">>)
         /\ hev[h2] = [kind |-> "AlertConf", type |-> NoTrigger, state |-> FALSE]
         /\ hlog[h2].svc = Raised("ServiceRuntimeError",
                                  <<"Alarm alert mode already stopped">>)

\* C7: on a camera behind a relay, start() returns without raising, calls no
\* trigger switch and spawns no monitoring task; started is false in every
\* state.
C7_RelayStartIsNoOp ==
    /\ [](is_behind_nvr => (~started /\ spawned = 0))
    /\ [][\A h \in Handlers :
            (NewCall(h, "AlertConf", TRUE) /\ is_behind_nvr) =>
               /\ hlog'[h].svc = Returned(None)
               /\ hlog'[h].switches = <<>>
               /\ hpc'[h] = "done"
               /\ started' = FALSE
               /\ spawned' = spawned]_vars

C7_Witness ==
    /\ is_behind_nvr
    /\ conf_enabled = ALARM_TRIGGERS
    /\ \E h \in Handlers :
         /\ hev[h] = [kind |-> "AlertConf", type |-> NoTrigger, state |-> TRUE]
         /\ hpc[h] = "done"
         /\ hlog[h].svc = Returned(None)
         /\ hlog[h].switches = <<>>
         /\ ~started /\ spawned = 0

\* C9: an alarm or stream toggle whose service call returned or raised
\* ServiceRuntimeError ends by returning after it put exactly one outbound
\* event; the event's text is None exactly when the call returned, and is the
\* error's message otherwise.
C9_ToggleAlwaysRepliesOnce ==
    \A h \in Handlers :
        (/\ hev[h].kind \in {"AlertConf", "Stream"}
         /\ hlog[h].svc.raised \in {"", "ServiceRuntimeError"}) =>
            /\ hpc[h] = "done"
            /\ Len(hlog[h].put) = 1
            /\ OnQueue(h)
            /\ hlog[h].put[1].event = hev[h].kind
            /\ hlog[h].put[1].state = hev[h].state
            /\ (hlog[h].put[1].text = None) <=> (hlog[h].svc.raised = "")
            /\ hlog[h].svc.raised = "ServiceRuntimeError" =>
                  /\ hlog[h].put[1].text = hlog[h].svc.val
                  /\ hlog[h].svc.val /= None

C9_Witness ==
    \E h1, h2 \in Handlers :
        /\ hev[h1].kind = "AlertConf" /\ hpc[h1] = "done"
        /\ hlog[h1].svc.raised = "ServiceRuntimeError"
        /\ hlog[h1].put[1].text = <<"Switch encountered an error", 1>>
        /\ hev[h2].kind = "Stream" /\ hpc[h2] = "done"
        /\ hlog[h2].svc.raised = ""
        /\ hlog[h2].put[1].text = None

\* C10: a snapshot invocation puts nothing while take_snapshot is awaited and
\* ends by returning after it put exactly one outbound event: a text event
\* when take_snapshot raised, the snapshot event when it returned.
C10_SnapshotAlwaysRepliesOnce ==
    \A h \in Handlers :
        hev[h].kind = "GetPic" =>
            /\ hpc[h] \in {"take_snapshot", "done"}
            /\ hpc[h] = "take_snapshot" => hlog[h].put = <<>>
            /\ hpc[h] = "done" =>
                  /\ Len(hlog[h].put) = 1
                  /\ OnQueue(h)
                  /\ hlog[h].svc.raised /= "" => hlog[h].put[1].event = "SendText"
                  /\ hlog[h].svc.raised = "" => hlog[h].put[1].event = "GetPic"

C10_Witness ==
    \E h1, h2 \in Handlers :
        /\ hev[h1].kind = "GetPic" /\ hpc[h1] = "done"
        /\ hlog[h1].svc.raised = "Exception"
        /\ hlog[h1].put[1].event = "SendText"
        /\ hev[h2].kind = "GetPic" /\ hpc[h2] = "done"
        /\ hlog[h2].svc.raised = ""
        /\ hlog[h2].put[1].event = "GetPic"

\* C8: lock_count never goes negative (a decrement at zero leaves zero), never
\* increases once the file exists, and is_locked is false exactly when
\* lock_count is 0.
C8_LockCountMonotoneNonNegative ==
    /\ [](\A f \in Files : /\ lock_count[f] >= 0
                           /\ (~is_locked(f)) <=> (lock_count[f] = 0))
    /\ [][\A f \in Files :
            /\ constructed[f] => lock_count'[f] <= lock_count[f]
            /\ (constructed[f] /\ lock_count[f] = 0) => lock_count'[f] = 0]_vars

C8_Witness ==
    \E f \in Files :
        /\ constructed[f]
        /\ flog[f].decs > flog[f].init
        /\ lock_count[f] = 0
        /\ ~is_locked(f)

\* C17: DvrFile.__init__ with a lock count <= 0 raises and yields no file
\* object; with a positive lock count it yields a file whose lock_count is
\* the supplied value, is_broken false and is_locked true.
C17_ConstructorRejectsNonPositive ==
    /\ [](\A f \in Files :
            /\ (flog[f].ctor /= "none" /\ flog[f].init <= 0) =>
                  (flog[f].ctor = "RuntimeError" /\ ~constructed[f])
            /\ (flog[f].ctor /= "none" /\ flog[f].init > 0) =>
                  (flog[f].ctor = "ok" /\ constructed[f]))
    /\ [][\A f \in Files :
            (~constructed[f] /\ constructed'[f]) =>
               /\ flog'[f].init > 0
               /\ lock_count'[f] = flog'[f].init
               /\ ~is_broken'[f]
               /\ lock_count'[f] /= 0]_vars

C17_Witness ==
    \E f, g \in Files :
        /\ flog[f].ctor = "RuntimeError" /\ flog[f].init = 0 /\ ~constructed[f]
        /\ flog[g].ctor = "ok" /\ constructed[g]
        /\ lock_count[g] = MaxLock /\ is_locked(g) /\ ~is_broken[g]

\* C11: a probe result that is present but has no stream of codec type
\* "video" leaves the file marked broken by the probe step.
C11_NoVideoStreamMarksBroken ==
    \A f \in Files :
        (/\ probe[f] \notin {"none", "running"}
         /\ DOMAIN probe_ctx[f] /= {}
         /\ "streams" \in DOMAIN probe_ctx[f]
         /\ video_streams(probe_ctx[f]) = <<>>) => is_broken[f]

\* C12: a file marked broken has duration, width and height unset.
C12_BrokenHasNoMetadata ==
    \A f \in Files :
        is_broken[f] => (duration[f] = Unset /\ width[f] = Unset /\ height[f] = Unset)

\* C13: once is_broken is true, no later step (probe, thumbnail, lock
\* decrement, upload attempt) makes it false.
C13_BrokenIsSticky ==
    [][\A f \in Files : is_broken[f] => is_broken'[f]]_vars

C13_Witness ==
    \E f \in Files, w \in Workers :
        /\ is_broken[f]
        /\ flog[f].probes = MaxProbes /\ probe[f] = "returned"
        /\ probe_ctx[f] = FullCtx /\ duration[f] /= Unset
        /\ thumb[f] = "made"
        /\ Left(w, f)
        /\ flog[f].decs > 0

\* the switch calls spec 4.4 asks of start(): one per trigger the
\* configuration enables, with state = true, in the order of ALARM_TRIGGERS
RECURSIVE SwitchesFrom(_)
SwitchesFrom(t) ==
    IF t > NumTriggers THEN <<>>
    ELSE (IF t \in conf_enabled THEN <<<<t, TRUE>>>> ELSE <<>>) \o SwitchesFrom(t + 1)

EnabledSwitches == SwitchesFrom(1)

IsPrefix(s, t) == Len(s) <= Len(t) /\ SubSeq(t, 1, Len(s)) = s

\* handler h is inside AlarmService.start, suspended in a switch call
InStart(h) == hpc[h] = "switch" /\ hev[h].kind = "AlertConf"

\* C14: a start() that gets past its guards calls the trigger switch with
\* state = true once for each trigger the configuration enables and for no
\* other, one call at a time in order; only when the last of them has
\* returned does it set started and spawn the monitoring task.
C14_StartSwitchesEnabledTriggersFirst ==
    /\ [](\A h \in Handlers : InStart(h) =>
              /\ hlog[h].switches /= <<>>
              /\ IsPrefix(hlog[h].switches, EnabledSwitches)
              /\ hlog[h].switches[Len(hlog[h].switches)] = <<htrigger[h], TRUE>>
              /\ hlog[h].svc = Pending)
    /\ [][(spawned' /= spawned \/ (~started /\ started')) =>
              /\ spawned' = spawned + 1 /\ started'
              /\ \E h \in Handlers :
                    /\ hlog'[h] /= hlog[h] /\ hpc'[h] = "done"
                    /\ hev'[h].kind = "AlertConf" /\ hev'[h].state
                    /\ hlog'[h].switches = EnabledSwitches
                    /\ hlog'[h].svc = Returned(None)]_vars

C14_Witness ==
    \E h \in Handlers :
        /\ ~is_behind_nvr /\ conf_enabled = ALARM_TRIGGERS
        /\ hpc[h] = "done" /\ hev[h].kind = "AlertConf" /\ hev[h].state
        /\ Len(hlog[h].switches) = NumTriggers
        /\ hlog[h].switches = EnabledSwitches
        /\ hlog[h].svc = Returned(None)
        /\ started /\ spawned = 1

\* C19: when a switch call made by start() ends in a device-API error,
\* start() raises ServiceRuntimeError, and that call neither changes started,
\* nor spawns a task, nor switches another trigger.
C19_FailedSwitchAbortsStart ==
    [][\A h \in Handlers :
          (InStart(h) /\ hlog'[h] /= hlog[h]
             /\ hlog'[h].api = "HikvisionAPIError") =>
              /\ hlog'[h].svc.raised = "ServiceRuntimeError"
              /\ hpc'[h] /= "switch"
              /\ hlog'[h].switches = hlog[h].switches
              /\ started' = started /\ spawned' = spawned /\ tasks' = tasks]_vars

C19_Witness ==
    \E h \in Handlers :
        /\ hev[h].kind = "AlertConf" /\ hev[h].state /\ hpc[h] = "done"
        /\ hlog[h].api = "HikvisionAPIError"
        /\ hlog[h].svc.raised = "ServiceRuntimeError"
        /\ conf_enabled = ALARM_TRIGGERS /\ Len(hlog[h].switches) = 1
        /\ ~started /\ spawned = 0

\* no successful stop() was made since the service was built
NoStopYet == \A t \in DOMAIN tasks : ~tasks[t].stopped

\* C18 as stated: start() calls with no stop() among them spawn at most one
\* monitoring task (at most one of them succeeds).
C18_AtMostOneStartSucceeds == NoStopYet => spawned <= 1

\* C18 amended: a start() spawns a second task next to a started service
\* only if it passed the started check earlier and was suspended in a switch
\* call since; with no trigger enabled start() never suspends and at most one
\* of the calls succeeds.
C18_SecondStartWasSuspended ==
    /\ [][(started /\ spawned' /= spawned) =>
              \E h \in Handlers : InStart(h) /\ hpc'[h] = "done"]_vars
    /\ []((conf_enabled = {} /\ NoStopYet) => spawned <= 1)

C18_Witness ==
    /\ NoStopYet /\ spawned = 2 /\ started
    /\ \A h \in Handlers : hpc[h] = "done" /\ hlog[h].svc = Returned(None)

\* C15: stop() only clears started; every monitoring task alive at a
\* successful stop() eventually terminates.
C15_StoppedTaskTerminates ==
    \A t \in TaskIds :
        (t \in DOMAIN tasks /\ tasks[t].stopped)
            ~> (t \in DOMAIN tasks /\ tasks[t].pc = "exited")

\* C16: the consumer's get() yields the outbound events in exactly the order
\* of the handlers' put() calls: what was delivered, followed by what is
\* still queued, is the sequence of puts (nothing lost, duplicated or
\* reordered), and each get() delivers the oldest undelivered put.
C16_ResultChannelIsFifo ==
    /\ [](delivered \o result_queue = puts)
    /\ [][delivered' /= delivered =>
             /\ Len(delivered) < Len(puts)
             /\ delivered' = Append(delivered, puts[Len(delivered) + 1])]_vars

C16_Witness ==
    /\ Len(delivered) >= 2 /\ result_queue /= <<>>
    /\ delivered[1].msg /= delivered[2].msg
    /\ delivered[1].event /= delivered[2].event

\* the workers that made their decrement_lock_count() call on f
Released(f) == {w \in Workers : ulog[w][f].decs > 0}

\* worker w still has f on its queue or is still uploading it
Holds(w, f) == ulog[w][f].status \in {"queued", "uploading"}

\* C20: a file created with one lock per worker and enqueued once on each
\* worker stays locked while a worker still has it queued or is uploading
\* it, and every worker's decrement lowers lock_count by exactly one: the
\* count is the initial count less the number of workers that decremented.
C20_NoPrematureUnlock ==
    /\ [](\A f \in Files :
              /\ \A w \in Workers : ulog[w][f].decs <= 1
              /\ lock_count[f] = flog[f].init - Cardinality(Released(f))
              /\ (\E w \in Workers : Holds(w, f)) => is_locked(f))
    /\ [][\A f \in Files : \A w \in Workers :
              (ulog'[w][f].decs /= ulog[w][f].decs) =>
                  lock_count'[f] = lock_count[f] - 1]_vars

C20_Witness ==
    \E f \in Files : \E w1, w2 \in Workers :
        /\ flog[f].init = NumWorkers
        /\ ulog[w1][f].status = "finished" /\ ulog[w1][f].decs = 1
        /\ ulog[w2][f].status = "uploading"
        /\ lock_count[f] = NumWorkers - 1 /\ is_locked(f)
====
